---- MODULE Spec2Model ----
(***************************************************************************)
(* MagicBook API: the story generator (_title_from, _image_for,            *)
(* _generate_pages) and the three story handlers (create_story,            *)
(* list_stories, get_story) of src/main.py, with the request schema of     *)
(* src/schemas.py.                                                         *)
(*                                                                         *)
(* Text is a sequence of tokens.  Every character of a caller-supplied     *)
(* value (child_name, theme, tone, language, story_id) is one token, so    *)
(* lower(), replace() and ObjectId() work on it character by character.    *)
(* A literal of the source is kept as one token per literal piece; no      *)
(* literal of the source contains "{" or "}", so no occurrence of the      *)
(* pattern "{theme}" can begin, end or lie inside a literal piece.         *)
(***************************************************************************)
EXTENDS Integers, Sequences, FiniteSets, TLC

VARIABLES store, nextOid, last, resp, calls

vars == <<store, nextOid, last, resp, calls>>

(***************************************************************************)
(* Bounds of the model.                                                    *)
(***************************************************************************)
\* most documents the store holds before create_story is no longer tried
MaxStories == 2
\* largest total_pages handed to _generate_pages when it is called directly
MaxTotalPages == 13

(***************************************************************************)
(* Text helpers.                                                           *)
(***************************************************************************)
Range(s) == {s[k] : k \in 1..Len(s)}

UpperCase == <<"A", "C", "E", "H", "I", "M", "P", "R", "S", "T", "U", "Â">>
LowerCase == <<"a", "c", "e", "h", "i", "m", "p", "r", "s", "t", "u", "â">>

\* str.lower() on one character
LowerChar(c) ==
    IF \E k \in 1..Len(UpperCase) : UpperCase[k] = c
    THEN LowerCase[CHOOSE k \in 1..Len(UpperCase) : UpperCase[k] = c]
    ELSE c

\* str.lower()
Lower(s) == [k \in 1..Len(s) |-> LowerChar(s[k])]

Digits == <<"0", "1", "2", "3", "4", "5", "6", "7", "8", "9">>

\* str(int) as an f-string writes it: decimal, no padding, "-" for negatives
RECURSIVE NatToStr(_)
NatToStr(n) ==
    IF n < 10 THEN <<Digits[n + 1]>>
    ELSE NatToStr(n \div 10) \o <<Digits[(n % 10) + 1]>>

IntToStr(n) == IF n < 0 THEN <<"-">> \o NatToStr(0 - n) ELSE NatToStr(n)

\* s[k:].startswith(old)
StartsAt(s, k, old) ==
    /\ k + Len(old) - 1 <= Len(s)
    /\ \A j \in 1..Len(old) : s[k + j - 1] = old[j]

\* old in s
Contains(s, old) == \E k \in 1..(Len(s) + 1) : StartsAt(s, k, old)

\* str.replace(old, new) for a non-empty old: leftmost occurrences,
\* left to right, not overlapping; the inserted text is not scanned again
RECURSIVE ReplaceFrom(_, _, _, _)
ReplaceFrom(s, k, old, new) ==
    IF k > Len(s) THEN <<>>
    ELSE IF StartsAt(s, k, old)
         THEN new \o ReplaceFrom(s, k + Len(old), old, new)
         ELSE <<s[k]>> \o ReplaceFrom(s, k + 1, old, new)

Replace(s, old, new) == ReplaceFrom(s, 1, old, new)

\* the literal "{theme}" of main.py line 126
ThemePlaceholder == <<"{", "t", "h", "e", "m", "e", "}">>

(***************************************************************************)
(* schemas.py: StoryRequest.  tone is Optional[str]: <<>> is None and      *)
(* <<t>> is the text t.                                                    *)
(***************************************************************************)
None == <<>>
Some(t) == <<t>>

\* Field(..., ge=1, le=12) on age
AgeOkMutNoUpper(age) == age >= 1

AgeOk(age) == age >= 1 /\ age <= 12

\* Field(12, ge=6, le=20) on pages
PagesOk(pages) == pages >= 6 /\ pages <= 20

\* child_name: str = Field(...): required text, no length constraint
ChildNameOk(child_name) == TRUE

\* pydantic validation of the request body
StoryRequestValid(req) ==
    /\ ChildNameOk(req.child_name)
    /\ AgeOk(req.age)
    /\ PagesOk(req.pages)

\* Query("preview", pattern="^(preview|full)$")
VariantValid(variant) == variant \in {"preview", "full"}

(***************************************************************************)
(* main.py: the story generator.                                           *)
(***************************************************************************)
Generic == <<"L'aventure merveilleuse">>

\* the dict `themes` of _title_from: <<key, phrase>> pairs
themes ==
    { << <<"e", "s", "p", "a", "c", "e">>, <<"L'odyssée stellaire">> >>,
      << <<"p", "i", "r", "a", "t", "e", "s">>, <<"Le trésor des vagues d'or">> >>,
      << <<"j", "u", "n", "g", "l", "e">>, <<"Le coeur de la forêt magique">> >>,
      << <<"c", "h", "â", "t", "e", "a", "u">>, <<"Le secret du château arc-en-ciel">> >> }

\* dict.get(key, default)
DictGet(d, key, default) ==
    IF \E kv \in d : kv[1] = key
    THEN (CHOOSE kv \in d : kv[1] = key)[2]
    ELSE default

title_fromMutNoLower(req) ==
    req.child_name \o <<" et ">> \o DictGet(themes, req.theme, Generic)

title_from(req) ==
    LET base == DictGet(themes, Lower(req.theme), Generic)
    IN  req.child_name \o <<" et ">> \o base

image_forMutNoPage(theme, page) ==
    <<"https://picsum.photos/seed/">> \o theme \o <<"/960/640">>

image_for(theme, page) ==
    LET seed == theme \o <<"-">> \o IntToStr(page)
    IN  <<"https://picsum.photos/seed/">> \o seed \o <<"/960/640">>

\* req.tone or "doux": None and the empty text are both falsy
ToneOrDoux(tone) ==
    IF tone = None \/ tone[1] = <<>> THEN <<"d", "o", "u", "x">> ELSE tone[1]

\* the list `beats` of _generate_pages, the f-strings already evaluated
beats(name, age, theme, tone) ==
    << <<1, name \o <<", ">> \o IntToStr(age) \o <<" ans, adore l'univers ">>
             \o theme
             \o <<". Un soir, une petite lueur vient chuchoter son prénom...">> >>,
       <<2, <<"La lueur ouvre un passage secret. ">> \o name
             \o <<" respire doucement, son coeur bat fort mais ">> \o tone
             \o <<".">> >>,
       <<3, <<"De l'autre côté, un ami apparaît. Ensemble, ils découvrent une mission simple: écouter, aider et oser.">> >>,
       <<4, <<"Un petit défi arrive. ">> \o name
             \o <<" inspire, compte jusqu'à trois et trouve une idée lumineuse.">> >>,
       <<5, <<"Le monde ">> \o theme
             \o <<" s'illumine. Tout devient plus doux, plus coloré, et ">>
             \o name \o <<" sourit.">> >>,
       <<6, <<"La morale: avec gentillesse et courage, on grandit chaque jour, à son rythme.">> >> >>

\* range(1, total_pages + 1), in iteration order
PageRangeMutZeroBased(total_pages) ==
    [k \in 1..(IF total_pages > 0 THEN total_pages ELSE 0) |-> k - 1]

PageRange(total_pages) ==
    [k \in 1..(IF total_pages > 0 THEN total_pages ELSE 0) |-> k]

\* base_idx = (i - 1) % len(beats), as a 0-based index
BaseIdxMutClamp(i, nbeats) == IF i - 1 < nbeats - 1 THEN i - 1 ELSE nbeats - 1

BaseIdx(i, nbeats) == (i - 1) % nbeats

\* the body of the for loop: the page appended for index i
PageFor(bs, theme, i) ==
    LET base_idx == BaseIdx(i, Len(bs))
        text0 == bs[base_idx + 1][2]
        text == Replace(text0, ThemePlaceholder, theme)
    IN  [page_number |-> i, text |-> text, image_url |-> image_for(theme, i)]

generate_pages(req, total_pages) ==
    LET name == req.child_name
        age == req.age
        theme == Lower(req.theme)
        tone == ToneOrDoux(req.tone)
        bs == beats(name, age, theme, tone)
        idx == PageRange(total_pages)
    IN  [k \in 1..Len(idx) |-> PageFor(bs, theme, idx[k])]

(***************************************************************************)
(* Store identifiers.  The store assigns the n-th inserted document the    *)
(* identifier n; str(ObjectId) writes it as 24 lower-case hex digits and   *)
(* ObjectId(text) accepts exactly the texts of 24 hex digits.              *)
(***************************************************************************)
HexLower == <<"0", "1", "2", "3", "4", "5", "6", "7", "8", "9",
              "a", "b", "c", "d", "e", "f">>
HexUpper == <<"0", "1", "2", "3", "4", "5", "6", "7", "8", "9",
              "A", "B", "C", "D", "E", "F">>

IsHex(c) == \E k \in 1..16 : HexLower[k] = c \/ HexUpper[k] = c

HexVal(c) == (CHOOSE k \in 1..16 : HexLower[k] = c \/ HexUpper[k] = c) - 1

RECURSIVE NatToHex(_)
NatToHex(n) ==
    IF n < 16 THEN <<HexLower[n + 1]>>
    ELSE NatToHex(n \div 16) \o <<HexLower[(n % 16) + 1]>>

\* str(oid)
ObjectIdStr(oid) ==
    LET h == NatToHex(oid)
    IN  [k \in 1..(24 - Len(h)) |-> "0"] \o h

\* ObjectId(story_id) raises unless this holds
ObjectIdValid(story_id) ==
    /\ Len(story_id) = 24
    /\ \A k \in 1..Len(story_id) : IsHex(story_id[k])

RECURSIVE HexToNat(_)
HexToNat(s) ==
    IF s = <<>> THEN 0
    ELSE 16 * HexToNat(SubSeq(s, 1, Len(s) - 1)) + HexVal(s[Len(s)])

\* ObjectId(story_id) for a valid text
ObjectId(story_id) == HexToNat(story_id)

(***************************************************************************)
(* The store adapter (database.py): one collection, "story".               *)
(***************************************************************************)
\* the stored document: the inserted fields plus the identifier _id
WithOid(doc, oid) ==
    [_id |-> oid, title |-> doc.title, child_name |-> doc.child_name,
     age |-> doc.age, theme |-> doc.theme, tone |-> doc.tone,
     language |-> doc.language, pages |-> doc.pages, variant |-> doc.variant,
     price_cents |-> doc.price_cents, pages_data |-> doc.pages_data]

\* create_document: the collection after the insert
create_document(coll, doc, oid) == Append(coll, WithOid(doc, oid))

RECURSIVE SelectDocs(_, _)
SelectDocs(coll, oids) ==
    IF coll = <<>> THEN <<>>
    ELSE (IF Head(coll)._id \in oids THEN <<Head(coll)>> ELSE <<>>)
         \o SelectDocs(Tail(coll), oids)

\* get_documents: the matching documents in store order, at most `limit`
get_documents(coll, oids, limit) ==
    LET found == SelectDocs(coll, oids)
    IN  SubSeq(found, 1, IF Len(found) < limit THEN Len(found) ELSE limit)

AllOids(coll) == {coll[k]._id : k \in 1..Len(coll)}

(***************************************************************************)
(* main.py: the handlers.                                                  *)
(***************************************************************************)
\* target_pages of create_story
TargetPagesMutIgnoreVariant(variant, pages) ==
    IF pages < 20 THEN (IF pages > 6 THEN pages ELSE 6) ELSE 20

TargetPages(variant, pages) ==
    IF variant = "preview" THEN 3
    ELSE LET m == IF pages < 20 THEN pages ELSE 20
         IN  IF m > 6 THEN m ELSE 6

\* req.language or "fr"
LanguageOrFr(language) == IF language = <<>> THEN <<"f", "r">> ELSE language

\* the dict `doc` of create_story, before the insert
StoryDoc(req, variant) ==
    LET target_pages == TargetPages(variant, req.pages)
    IN  [title |-> title_from(req),
         child_name |-> req.child_name,
         age |-> req.age,
         theme |-> req.theme,
         tone |-> ToneOrDoux(req.tone),
         language |-> LanguageOrFr(req.language),
         pages |-> target_pages,
         variant |-> variant,
         price_cents |-> 1000,
         pages_data |-> generate_pages(req, target_pages)]

\* d["id"] = str(d.get("_id")); del d["_id"]
WithId(d) ==
    [id |-> ObjectIdStr(d._id), title |-> d.title, child_name |-> d.child_name,
     age |-> d.age, theme |-> d.theme, tone |-> d.tone,
     language |-> d.language, pages |-> d.pages, variant |-> d.variant,
     price_cents |-> d.price_cents, pages_data |-> d.pages_data]

Init ==
    /\ store = <<>>
    /\ nextOid = 1
    /\ last = [op |-> "init"]
    /\ resp = [status |-> 0, body |-> <<>>]
    /\ calls = <<>>

\* POST /api/stories
create_story(req, variant) ==
    /\ last' = [op |-> "create_story", req |-> req, variant |-> variant]
    /\ IF StoryRequestValid(req) /\ VariantValid(variant)
       THEN LET doc == StoryDoc(req, variant)
            IN  /\ Len(store) < MaxStories
                /\ store' = create_document(store, doc, nextOid)
                /\ nextOid' = nextOid + 1
                /\ resp' = [status |-> 200, body |-> <<WithId(WithOid(doc, nextOid))>>]
                /\ calls' = <<"_generate_pages", "_title_from", "create_document">>
       ELSE /\ resp' = [status |-> 422, body |-> <<>>]
            /\ calls' = <<>>
            /\ UNCHANGED <<store, nextOid>>

\* GET /api/stories
list_stories(limit) ==
    LET docs == get_documents(store, AllOids(store), limit)
    IN  /\ last' = [op |-> "list_stories", limit |-> limit]
        /\ resp' = [status |-> 200, body |-> [k \in 1..Len(docs) |-> WithId(docs[k])]]
        /\ calls' = <<"get_documents">>
        /\ UNCHANGED <<store, nextOid>>

\* get_story with the malformed identifier reported as not found
get_storyMutNotFound(story_id) ==
    /\ last' = [op |-> "get_story", story_id |-> story_id]
    /\ LET docs == IF ObjectIdValid(story_id)
                   THEN get_documents(store, {ObjectId(story_id)}, 1)
                   ELSE <<>>
       IN  /\ calls' = <<"ObjectId", "get_documents">>
           /\ IF docs = <<>>
              THEN resp' = [status |-> 404, body |-> <<>>]
              ELSE resp' = [status |-> 200, body |-> <<WithId(docs[1])>>]
    /\ UNCHANGED <<store, nextOid>>

\* get_story taking the document out of the store as it returns it
get_storyMutPop(story_id) ==
    /\ last' = [op |-> "get_story", story_id |-> story_id]
    /\ IF ~ObjectIdValid(story_id)
       THEN /\ resp' = [status |-> 400, body |-> <<>>]
            /\ calls' = <<"ObjectId">>
            /\ store' = store
       ELSE LET oid == ObjectId(story_id)
                docs == get_documents(store, {oid}, 1)
            IN  /\ calls' = <<"ObjectId", "get_documents">>
                /\ store' = SelectDocs(store, AllOids(store) \ {oid})
                /\ IF docs = <<>>
                   THEN resp' = [status |-> 404, body |-> <<>>]
                   ELSE resp' = [status |-> 200, body |-> <<WithId(docs[1])>>]
    /\ UNCHANGED nextOid

\* GET /api/stories/{story_id}
get_story(story_id) ==
    /\ last' = [op |-> "get_story", story_id |-> story_id]
    /\ IF ~ObjectIdValid(story_id)
       THEN /\ resp' = [status |-> 400, body |-> <<>>]
            /\ calls' = <<"ObjectId">>
       ELSE LET oid == ObjectId(story_id)
                docs == get_documents(store, {oid}, 1)
            IN  /\ calls' = <<"ObjectId", "get_documents">>
                /\ IF docs = <<>>
                   THEN resp' = [status |-> 404, body |-> <<>>]
                   ELSE resp' = [status |-> 200, body |-> <<WithId(docs[1])>>]
    /\ UNCHANGED <<store, nextOid>>

(***************************************************************************)
(* Direct calls of the generator's functions: the arguments are drawn by   *)
(* InitGen and the call is applied once.                                   *)
(***************************************************************************)
call_generate_pages ==
    /\ last.op = "pending"
    /\ last' = [last EXCEPT !.op = "_generate_pages"]
    /\ resp' = [status |-> 0, body |-> generate_pages(last.req, last.total_pages)]
    /\ UNCHANGED <<store, nextOid, calls>>

call_title_from ==
    /\ last.op = "pending"
    /\ last' = [last EXCEPT !.op = "_title_from"]
    /\ resp' = [status |-> 0, body |-> title_from(last.req)]
    /\ UNCHANGED <<store, nextOid, calls>>

(***************************************************************************)
(* Inputs.                                                                 *)
(***************************************************************************)
Lea == <<"L", "é", "a">>
Drole == <<"d", "r", "ô", "l", "e">>
Fr == <<"f", "r">>
Pirates == <<"P", "i", "r", "a", "t", "e", "s">>

Requests(names, ages, themeSet, tones, pageCounts) ==
    [child_name : names, age : ages, theme : themeSet, tone : tones,
     language : {Fr}, pages : pageCounts]

\* request bodies sent to POST /api/stories, valid and invalid: the empty
\* name and the given tone come with one request each, and age and pages
\* are both out of range in one
SvcRequests ==
    { r \in Requests({<<>>, Lea}, {0, 12, 13}, {Pirates}, {None, Some(Drole)},
                     {5, 6, 20, 21}) :
        /\ r.tone # None => (r.child_name = Lea /\ r.age = 12 /\ r.pages = 20)
        /\ r.child_name = <<>> => (r.age = 12 /\ r.pages = 6)
        /\ (~AgeOk(r.age) /\ ~PagesOk(r.pages)) => (r.age = 0 /\ r.pages = 21) }

\* the variant query parameter; the unknown variant is sent with one request
SvcCalls ==
    { c \in SvcRequests \X {"preview", "full", "draft"} :
        /\ c[2] = "draft" => c[1].tone # None
        /\ c[2] = "preview" => c[1].tone = None }

Limits == {1, 20}

\* path parameters sent to GET /api/stories/{story_id}
StoryIds ==
    {ObjectIdStr(k) : k \in 1..(MaxStories + 1)}
    \cup { <<>>,
           <<"a", "b", "c">>,
           [k \in 1..23 |-> "0"],
           [k \in 1..24 |-> IF k = 24 THEN "z" ELSE "0"],
           [k \in 1..24 |-> IF k = 24 THEN "A" ELSE "0"] }

\* validated requests handed to the generator's functions
GenRequests ==
    { r \in Requests({Lea, ThemePlaceholder}, {1, 12},
                     { Pirates,
                       <<"e", "s", "p", "a", "c", "e">>,
                       <<"C", "H", "Â", "T", "E", "A", "U">>,
                       <<"M", "a", "r", "s">> },
                     {None, Some(<<>>), Some(Drole), Some(ThemePlaceholder)},
                     {12}) : StoryRequestValid(r) }

Next ==
    \/ \E c \in SvcCalls : create_story(c[1], c[2])
    \/ \E limit \in Limits : list_stories(limit)
    \/ \E story_id \in StoryIds : get_story(story_id)

Spec == Init /\ [][Next]_vars

InitGen ==
    /\ store = <<>>
    /\ nextOid = 1
    /\ resp = [status |-> 0, body |-> <<>>]
    /\ calls = <<>>
    /\ last \in [op : {"pending"}, req : GenRequests, total_pages : 0..MaxTotalPages]

NextGen ==
    \/ call_generate_pages
    \/ call_title_from

SpecGen == InitGen /\ [][NextGen]_vars

(***************************************************************************)
(* Properties.                                                             *)
(***************************************************************************)
Generated == last.op = "_generate_pages"

\* the 1-based position in `beats` of the beat the k-th page is built from
BeatOf(k) == ((k - 1) % 6) + 1

Clamp(x, lo, hi) == IF x < lo THEN lo ELSE IF x > hi THEN hi ELSE x

\* C1: _generate_pages(req, n) returns exactly n pages, and the page_number
\* of the k-th page of the list is k: 1, 2, ..., n in list order.
C1_ExactlyNPagesNumbered ==
    Generated =>
        /\ Len(resp.body) = last.total_pages
        /\ \A k \in 1..Len(resp.body) : resp.body[k].page_number = k

C1_Witness ==
    /\ Generated
    /\ last.total_pages = 7
    /\ Len(resp.body) = 7
    /\ resp.body[7].page_number = 7

\* C2: an accepted create_story call yields a story whose `pages` field and
\* whose number of pages_data entries are both 3 for variant "preview" and
\* both clamp(requested pages, 6, 20) for variant "full"; the returned and
\* the stored document agree.
C2_VariantSizing ==
    (last.op = "create_story" /\ resp.status = 200) =>
        LET want == IF last.variant = "preview" THEN 3
                    ELSE Clamp(last.req.pages, 6, 20)
            returned == resp.body[1]
            stored == store[Len(store)]
        IN  /\ last.variant \in {"preview", "full"}
            /\ returned.pages = want
            /\ Len(returned.pages_data) = want
            /\ stored.pages = want
            /\ Len(stored.pages_data) = want

C2_Witness ==
    /\ last.op = "create_story"
    /\ resp.status = 200
    /\ last.variant = "preview"
    /\ last.req.pages = 20
    /\ resp.body[1].pages = 3
    /\ \E k \in 1..Len(store) : store[k].variant = "full" /\ store[k].pages = 20

\* C3: beat selection has period 6: the text of page i equals the text of
\* page i + 6 whenever both pages exist.
C3_BeatPeriodSix ==
    Generated =>
        \A i \in 1..Len(resp.body) :
            i + 6 <= Len(resp.body) => resp.body[i].text = resp.body[i + 6].text

C3_Witness ==
    /\ Generated
    /\ last.total_pages = 13
    /\ resp.body[7].text = resp.body[1].text
    /\ resp.body[13].text = resp.body[1].text
    /\ resp.body[7].text # resp.body[6].text

\* C4: get_story answers a malformed identifier with 400 without querying the
\* store, a well-formed identifier of no stored document with 404, and a
\* well-formed identifier of a stored document with that document.
C4_GetStoryOutcome ==
    (last.op = "get_story") =>
        LET id == last.story_id
            hits == {k \in 1..Len(store) :
                        ObjectIdValid(id) /\ store[k]._id = ObjectId(id)}
        IN  /\ ~ObjectIdValid(id) =>
                  /\ resp.status = 400
                  /\ "get_documents" \notin Range(calls)
            /\ (ObjectIdValid(id) /\ hits = {}) => resp.status = 404
            /\ (ObjectIdValid(id) /\ hits # {}) =>
                  /\ resp.status = 200
                  /\ \E k \in hits : resp.body = <<WithId(store[k])>>
            /\ resp.status \in {200, 400, 404}

C4_Witness ==
    /\ last.op = "get_story"
    /\ Len(last.story_id) = 24
    /\ ~ObjectIdValid(last.story_id)
    /\ resp.status = 400
    /\ store # <<>>

\* C5: the title is child_name, " et ", and the phrase of the lower-cased
\* theme when that is espace, pirates, jungle or château, the generic phrase
\* otherwise.
C5_TitleFromTheme ==
    (last.op = "_title_from") =>
        LET t == Lower(last.req.theme)
            subtitle ==
                CASE t = <<"e", "s", "p", "a", "c", "e">> ->
                         <<"L'odyssée stellaire">>
                  [] t = <<"p", "i", "r", "a", "t", "e", "s">> ->
                         <<"Le trésor des vagues d'or">>
                  [] t = <<"j", "u", "n", "g", "l", "e">> ->
                         <<"Le coeur de la forêt magique">>
                  [] t = <<"c", "h", "â", "t", "e", "a", "u">> ->
                         <<"Le secret du château arc-en-ciel">>
                  [] OTHER -> <<"L'aventure merveilleuse">>
        IN  resp.body = last.req.child_name \o <<" et ">> \o subtitle

C5_Witness ==
    /\ last.op = "_title_from"
    /\ last.req.theme = <<"C", "H", "Â", "T", "E", "A", "U">>
    /\ resp.body = Lea \o <<" et ">> \o <<"Le secret du château arc-en-ciel">>

\* C6: every step keeps every stored document where it is and as it is;
\* list_stories and get_story leave the store unchanged, and the store
\* changes only by create_story adding one document.
C6_StoreOnlyGrows ==
    [][ /\ Len(store') >= Len(store)
        /\ \A k \in 1..Len(store) : store'[k] = store[k]
        /\ last'.op \in {"list_stories", "get_story"} => store' = store
        /\ store' # store =>
              (last'.op = "create_story" /\ Len(store') = Len(store) + 1) ]_vars

C6_Witness ==
    /\ Len(store) = 2
    /\ last.op = "get_story"
    /\ resp.status = 200
    /\ resp.body[1].id = ObjectIdStr(store[1]._id)

\* C7: a create_story request whose age is outside 1..12 or whose pages is
\* outside 6..20 is rejected as a validation error: the handler calls
\* nothing (no generation, no insert) and the store is unchanged.
C7_OutOfRangeRejected ==
    [][ (/\ last'.op = "create_story"
         /\ \/ last'.req.age < 1 \/ last'.req.age > 12
            \/ last'.req.pages < 6 \/ last'.req.pages > 20)
        => (/\ resp'.status = 422
            /\ calls' = <<>>
            /\ store' = store
            /\ nextOid' = nextOid) ]_vars

C7_Witness ==
    /\ last.op = "create_story"
    /\ last.req.age = 13
    /\ last.req.pages = 20
    /\ last.variant = "full"
    /\ resp.status = 422
    /\ Len(store) = 1

\* C8: the image URL of page i is the fixed prefix, the seed made of the
\* lower-cased theme, "-" and i in decimal, and the fixed size 960x640: it
\* depends on (theme, i) alone, and the pages of one story have pairwise
\* different URLs.
C8_ImageUrlOfThemeAndIndex ==
    Generated =>
        /\ \A k \in 1..Len(resp.body) :
              resp.body[k].image_url =
                  <<"https://picsum.photos/seed/">> \o Lower(last.req.theme)
                      \o <<"-">> \o NatToStr(k) \o <<"/960/640">>
        /\ \A j, k \in 1..Len(resp.body) :
              j # k => resp.body[j].image_url # resp.body[k].image_url

C8_Witness ==
    /\ Generated
    /\ last.total_pages = 13
    /\ last.req.theme = Pirates
    /\ resp.body[12].image_url # resp.body[13].image_url
    /\ resp.body[12].image_url =
           <<"https://picsum.photos/seed/", "p", "i", "r", "a", "t", "e", "s",
             "-", "1", "2", "/960/640">>

\* C9: every story that create_story persists has a non-empty child_name.
C9_PersistedNameNonEmpty ==
    \A k \in 1..Len(store) : store[k].child_name # <<>>

\* C10: every page built from a beat that mentions the name (beats 1, 2, 4
\* and 5) contains child_name verbatim, and every page built from beat 2
\* contains the tone verbatim.
C10_NameAndToneVerbatim ==
    Generated =>
        \A k \in 1..Len(resp.body) :
            /\ BeatOf(k) \in {1, 2, 4, 5} =>
                  Contains(resp.body[k].text, last.req.child_name)
            /\ BeatOf(k) = 2 =>
                  Contains(resp.body[k].text, ToneOrDoux(last.req.tone))

====
